---- MODULE Spec2Model ----
(***************************************************************************)
(* The view layer of the blog application (blogicum/blog/views.py and      *)
(* blogicum/blog/mixins.py) as a state machine.  The state is the entity   *)
(* store (posts, comments, categories), the clock, and the last request    *)
(* together with the response the handler gave to it.  One action per      *)
(* class-based view; an action is the whole request: dispatch, the         *)
(* handler for the HTTP method, the query or the save, and the response.   *)
(*                                                                         *)
(* Framework behaviour the views inherit (Django generic views):           *)
(*   - LoginRequiredMixin.dispatch answers an unauthenticated request      *)
(*     with a redirect to the login page and otherwise continues with the  *)
(*     next dispatch of the method resolution order;                       *)
(*   - DeleteView.get renders the confirmation page for get_object();      *)
(*     DeleteView.post calls self.delete() (DeletionMixin.post, the        *)
(*     behaviour the delete() overrides of the views are written for),     *)
(*     which deletes get_object();                                         *)
(*   - UpdateView/CreateView.get render the form, .post validates it and   *)
(*     calls form_valid (save, redirect to get_success_url) or re-renders  *)
(*     the form;                                                           *)
(*   - ListView.get builds get_queryset() and then get_context_data();     *)
(*   - get_object_or_404 raises Http404 when no row matches;               *)
(*   - redirect(name, **kwargs) reverses the named route and raises        *)
(*     NoReverseMatch when the route has no such keyword argument.         *)
(* Pagination (PAGINATED_BY = 10) is the identity on the first page for    *)
(* the store sizes explored here and is not modelled.                      *)
(***************************************************************************)
EXTENDS Integers, FiniteSets, TLC

VARIABLES posts, comments, category_is_published, next_post_pk,
          next_comment_pk, now, req, resp, post_issuer, comment_issuer

vars == <<posts, comments, category_is_published, next_post_pk,
          next_comment_pk, now, req, resp, post_issuer, comment_issuer>>

\* ------------------------------------------------------------------ bounds
MaxPosts == 2
MaxComments == 1
MaxTime == 1

\* ------------------------------------------------------------- value sets
Users == {"u1", "u2"}
Anonymous == "anon"
Requesters == Users \cup {Anonymous}
UnknownUsername == "nobody"
Slugs == {"c1", "c2"}
Texts == {"a", "b"}
Methods == {"GET", "POST"}
Dates == 0 .. MaxTime
NoPk == 0

EmptyMap == [x \in {} |-> x]

Remove(f, k) == [x \in (DOMAIN f) \ {k} |-> f[x]]

\* The fields a post form submits.  author is a field a client may add to the
\* submitted data; the handlers decide what becomes of it.
ValidPostForms ==
    [category : Slugs, is_published : BOOLEAN, pub_date : Dates, author : Users,
     is_valid : {TRUE}]

\* A submission that fails validation, and the unbound form of a GET.
InvalidPostForm ==
    [category |-> "c1", is_published |-> FALSE, pub_date |-> 0, author |-> "u1",
     is_valid |-> FALSE]

PostForms == ValidPostForms \cup {InvalidPostForm}

ValidCommentForms == [text : Texts, author : Users, is_valid : {TRUE}]

InvalidCommentForm == [text |-> "a", author |-> "u1", is_valid |-> FALSE]

CommentForms == ValidCommentForms \cup {InvalidCommentForm}

PostFormsOf(method) == IF method = "GET" THEN {InvalidPostForm} ELSE PostForms

CommentFormsOf(method) ==
    IF method = "GET" THEN {InvalidCommentForm} ELSE CommentForms

\* --------------------------------------------------------------- responses
Out(kind, items, P, C) ==
    [kind |-> kind, object_list |-> items, posts |-> P, comments |-> C]

Same(kind) == Out(kind, {}, posts, comments)

\* ------------------------------------------------------- framework helpers
is_authenticated(user) == user # Anonymous

\* The post_detail route captures the keyword argument the detail view reads.
PostDetailUrlKwarg == "post_id"

redirect_post_detail(kwarg) ==
    IF kwarg = PostDetailUrlKwarg THEN "redirect_detail" ELSE "server_error"

\* Comment.post is a foreign key: the comments of a deleted post go with it.
CascadeComments(C, post_id) ==
    [c \in {x \in DOMAIN C : C[x].post # post_id} |-> C[c]]

\* queryset.annotate(comment_count=Count('comments'))
comment_count(p) == Cardinality({c \in DOMAIN comments : comments[c].post = p})

add_comment_count_annotation(queryset) ==
    {[pk |-> p, annotated |-> TRUE, comment_count |-> comment_count(p)] :
        p \in queryset}

Unannotated(queryset) ==
    {[pk |-> p, annotated |-> FALSE, comment_count |-> 0] : p \in queryset}

\* ------------------------------------------------------------- mixins.py
\* The filter without the publication date cutoff.
PostsQuerySetMixin_get_queryset_NoCutoff ==
    {p \in DOMAIN posts : posts[p].is_published}

PostsQuerySetMixin_get_queryset ==
    {p \in DOMAIN posts : posts[p].is_published /\ posts[p].pub_date <= now}

\* ------------------------------------------------------------------ forms
\* CreatePostForm: the instance the bound form builds, before form_valid.
CreatePostForm_instance(form) ==
    [author |-> form.author, category |-> form.category,
     is_published |-> form.is_published, pub_date |-> form.pub_date]

\* CreatePostForm on an existing post: the editable fields are overwritten.
CreatePostForm_update(instance, form) ==
    [instance EXCEPT !.category = form.category,
                     !.is_published = form.is_published,
                     !.pub_date = form.pub_date]

CreateCommentForm_instance(form) ==
    [post |-> NoPk, author |-> form.author, text |-> form.text]

CreateCommentForm_update(instance, form) ==
    [instance EXCEPT !.text = form.text]

\* ---------------------------------------------------------- PostDeleteView
\* delete() without the author comparison.
PostDeleteView_delete_NoGuard(user, post_id) ==
    IF post_id \notin DOMAIN posts THEN Same("not_found")
    ELSE Out("redirect_index", {}, Remove(posts, post_id),
             CascadeComments(comments, post_id))

PostDeleteView_delete(user, post_id) ==
    IF post_id \notin DOMAIN posts THEN Same("not_found")
    ELSE IF user # posts[post_id].author THEN Same("redirect_index")
    ELSE Out("redirect_index", {}, Remove(posts, post_id),
             CascadeComments(comments, post_id))

\* LoginRequiredMixin.dispatch, then DeleteView.get or DeleteView.post.
PostDeleteView(method, user, post_id) ==
    IF ~is_authenticated(user) THEN Same("login")
    ELSE IF method = "GET"
         THEN IF post_id \in DOMAIN posts THEN Same("form")
              ELSE Same("not_found")
         ELSE PostDeleteView_delete(user, post_id)

\* ---------------------------------------------------------- PostUpdateView
PostUpdateView_dispatch(method, user, post_id, form) ==
    IF post_id \notin DOMAIN posts THEN Same("not_found")
    ELSE IF user # posts[post_id].author
         THEN Same(redirect_post_detail("pk"))
    ELSE IF ~is_authenticated(user) THEN Same("login")
    ELSE IF method = "GET" \/ ~form.is_valid THEN Same("form")
    ELSE Out(redirect_post_detail("post_id"), {},
             [posts EXCEPT ![post_id] = CreatePostForm_update(@, form)],
             comments)

\* ---------------------------------------------------------- PostCreateView
\* form_valid that keeps the author the form was bound with.
PostCreateView_form_valid_FormAuthor(user, form) ==
    CreatePostForm_instance(form)

PostCreateView_form_valid(user, form) ==
    [CreatePostForm_instance(form) EXCEPT !.author = user]

PostCreateView(method, user, form) ==
    IF ~is_authenticated(user) THEN Same("login")
    ELSE IF method = "GET" \/ ~form.is_valid THEN Same("form")
    ELSE Out("redirect_profile", {},
             posts @@ (next_post_pk :> PostCreateView_form_valid(user, form)),
             comments)

\* ------------------------------------------------------- CommentCreateView
CommentCreateView_form_valid(user, post_id, form) ==
    [CreateCommentForm_instance(form) EXCEPT !.post = post_id,
                                             !.author = user]

CommentCreateView(method, user, post_id, form) ==
    IF ~is_authenticated(user) THEN Same("login")
    ELSE IF method = "GET" \/ ~form.is_valid THEN Same("form")
    ELSE IF post_id \notin DOMAIN posts THEN Same("not_found")
    ELSE Out(redirect_post_detail("post_id"), {}, posts,
             comments @@ (next_comment_pk :>
                            CommentCreateView_form_valid(user, post_id, form)))

\* ------------------------------------------------------- CommentDeleteView
CommentDeleteView_delete(user, comment_pk) ==
    IF comment_pk \notin DOMAIN comments THEN Same("not_found")
    ELSE IF user # comments[comment_pk].author
         THEN Same(redirect_post_detail("pk"))
    ELSE Out(redirect_post_detail("post_id"), {}, posts,
             Remove(comments, comment_pk))

CommentDeleteView(method, user, comment_pk) ==
    IF ~is_authenticated(user) THEN Same("login")
    ELSE IF method = "GET"
         THEN IF comment_pk \in DOMAIN comments THEN Same("form")
              ELSE Same("not_found")
         ELSE CommentDeleteView_delete(user, comment_pk)

\* ------------------------------------------------------- CommentUpdateView
CommentUpdateView_dispatch(method, user, comment_pk, form) ==
    IF comment_pk \notin DOMAIN comments THEN Same("not_found")
    ELSE IF user # comments[comment_pk].author
         THEN Same(redirect_post_detail("pk"))
    ELSE IF ~is_authenticated(user) THEN Same("login")
    ELSE IF method = "GET" \/ ~form.is_valid THEN Same("form")
    ELSE Out(redirect_post_detail("post_id"), {}, posts,
             [comments EXCEPT ![comment_pk] = CreateCommentForm_update(@, form)])

\* --------------------------------------------------- AuthorProfileListView
\* get_queryset without the branch for the owner.
AuthorProfileListView_get_queryset_PublicOnly(user, username) ==
    add_comment_count_annotation(
        {p \in PostsQuerySetMixin_get_queryset : posts[p].author = username})

AuthorProfileListView_get_queryset(user, username) ==
    IF user = username
    THEN Unannotated({p \in DOMAIN posts : posts[p].author = user})
    ELSE add_comment_count_annotation(
             {p \in PostsQuerySetMixin_get_queryset :
                 posts[p].author = username})

\* get_context_data: get_object_or_404(User, username=...)
AuthorProfileListView(user, username) ==
    IF username \notin Users THEN Same("not_found")
    ELSE Out("list", AuthorProfileListView_get_queryset(user, username),
             posts, comments)

\* ------------------------------------------------------- BlogIndexListView
BlogIndexListView_get_queryset ==
    add_comment_count_annotation(
        {p \in PostsQuerySetMixin_get_queryset :
            category_is_published[posts[p].category]})

BlogIndexListView ==
    Out("list", BlogIndexListView_get_queryset, posts, comments)

\* ---------------------------------------------------- BlogCategoryListView
BlogCategoryListView_get_queryset(category_slug) ==
    add_comment_count_annotation(
        {p \in PostsQuerySetMixin_get_queryset :
            posts[p].category = category_slug})

\* get_context_data: get_object_or_404(Category, slug=..., is_published=True)
BlogCategoryListView(category_slug) ==
    IF ~category_is_published[category_slug] THEN Same("not_found")
    ELSE Out("list", BlogCategoryListView_get_queryset(category_slug),
             posts, comments)

\* ---------------------------------------------------------- PostDetailView
\* get_object whose second lookup leaves out is_published=True.
PostDetailView_get_object_NoFlag(user, post_id) ==
    IF post_id \notin DOMAIN posts THEN Same("not_found")
    ELSE IF user = posts[post_id].author
         THEN Out("page", Unannotated({post_id}), posts, comments)
    ELSE IF /\ category_is_published[posts[post_id].category]
            /\ posts[post_id].pub_date < now
         THEN Out("page", Unannotated({post_id}), posts, comments)
    ELSE Same("not_found")

PostDetailView_get_object(user, post_id) ==
    IF post_id \notin DOMAIN posts THEN Same("not_found")
    ELSE IF user = posts[post_id].author
         THEN Out("page", Unannotated({post_id}), posts, comments)
    ELSE IF /\ posts[post_id].is_published
            /\ category_is_published[posts[post_id].category]
            /\ posts[post_id].pub_date < now
         THEN Out("page", Unannotated({post_id}), posts, comments)
    ELSE Same("not_found")

\* ------------------------------------------------------------ the machine
\* comment_pk is NoPk for the post routes; the post_id of a comment edit or
\* delete URL only names the redirect target and is not kept.
Request(view, method, user, post_id, comment_pk, name) ==
    [view |-> view, method |-> method, user |-> user, post_id |-> post_id,
     comment_pk |-> comment_pk, name |-> name]

NoRequest == Request("none", "GET", Anonymous, NoPk, NoPk, "")
NoResponse == [kind |-> "none", object_list |-> {}]

Idle == req = NoRequest

\* The request is answered: the store is what the handler left, the primary
\* key sequences have moved past the rows inserted, and the issuer of every
\* new row is remembered.
Respond(r, out) ==
    /\ req' = r
    /\ resp' = [kind |-> out.kind, object_list |-> out.object_list]
    /\ posts' = out.posts
    /\ comments' = out.comments
    /\ next_post_pk' =
           next_post_pk + Cardinality((DOMAIN out.posts) \ DOMAIN posts)
    /\ next_comment_pk' =
           next_comment_pk + Cardinality((DOMAIN out.comments) \ DOMAIN comments)
    /\ post_issuer' =
           [p \in DOMAIN out.posts |->
               IF p \in DOMAIN post_issuer THEN post_issuer[p] ELSE r.user]
    /\ comment_issuer' =
           [c \in DOMAIN out.comments |->
               IF c \in DOMAIN comment_issuer THEN comment_issuer[c] ELSE r.user]
    /\ UNCHANGED <<category_is_published, now>>

PostIds == 1 .. MaxPosts
CommentIds == 1 .. MaxComments

Init ==
    /\ posts = EmptyMap
    /\ comments = EmptyMap
    /\ category_is_published = [s \in Slugs |-> s = "c1"]
    /\ next_post_pk = 1
    /\ next_comment_pk = 1
    /\ now = 0
    /\ req = NoRequest
    /\ resp = NoResponse
    /\ post_issuer = EmptyMap
    /\ comment_issuer = EmptyMap

PostDelete ==
    \E method \in Methods, user \in Requesters, post_id \in PostIds :
        /\ Idle
        /\ Respond(Request("post_delete", method, user, post_id, NoPk, ""),
                   PostDeleteView(method, user, post_id))

PostUpdate ==
    \E method \in Methods, user \in Requesters, post_id \in PostIds :
        \E form \in PostFormsOf(method) :
            /\ Idle
            /\ Respond(Request("post_update", method, user, post_id, NoPk, ""),
                       PostUpdateView_dispatch(method, user, post_id, form))

PostCreate ==
    \E method \in Methods, user \in Requesters :
        \E form \in PostFormsOf(method) :
            /\ Idle
            /\ next_post_pk <= MaxPosts
            /\ Respond(Request("post_create", method, user, NoPk, NoPk, ""),
                       PostCreateView(method, user, form))

CommentCreate ==
    \E method \in Methods, user \in Requesters, post_id \in PostIds :
        \E form \in CommentFormsOf(method) :
            /\ Idle
            /\ next_comment_pk <= MaxComments
            /\ Respond(Request("comment_create", method, user, post_id, NoPk, ""),
                       CommentCreateView(method, user, post_id, form))

CommentDelete ==
    \E method \in Methods, user \in Requesters, comment_pk \in CommentIds :
        /\ Idle
        /\ Respond(Request("comment_delete", method, user, NoPk, comment_pk, ""),
                   CommentDeleteView(method, user, comment_pk))

CommentUpdate ==
    \E method \in Methods, user \in Requesters, comment_pk \in CommentIds :
        \E form \in CommentFormsOf(method) :
            /\ Idle
            /\ Respond(Request("comment_update", method, user, NoPk, comment_pk, ""),
                       CommentUpdateView_dispatch(method, user, comment_pk, form))

AuthorProfileList ==
    \E user \in Requesters, username \in Users \cup {UnknownUsername} :
        /\ Idle
        /\ Respond(Request("profile", "GET", user, NoPk, NoPk, username),
                   AuthorProfileListView(user, username))

BlogIndexList ==
    \E user \in Requesters :
        /\ Idle
        /\ Respond(Request("index", "GET", user, NoPk, NoPk, ""), BlogIndexListView)

BlogCategoryList ==
    \E user \in Requesters, category_slug \in Slugs :
        /\ Idle
        /\ Respond(Request("category", "GET", user, NoPk, NoPk, category_slug),
                   BlogCategoryListView(category_slug))

PostDetail ==
    \E user \in Requesters, post_id \in PostIds :
        /\ Idle
        /\ Respond(Request("post_detail", "GET", user, post_id, NoPk, ""),
                   PostDetailView_get_object(user, post_id))

\* The response has gone out; the process waits for the next request.
ResponseSent ==
    /\ ~Idle
    /\ req' = NoRequest
    /\ resp' = NoResponse
    /\ UNCHANGED <<posts, comments, category_is_published, next_post_pk,
                   next_comment_pk, now, post_issuer, comment_issuer>>

\* timezone.now() moves on between requests.
Tick ==
    /\ Idle
    /\ now < MaxTime
    /\ now' = now + 1
    /\ UNCHANGED <<posts, comments, category_is_published, next_post_pk,
                   next_comment_pk, req, resp, post_issuer, comment_issuer>>

Next ==
    \/ PostDelete
    \/ PostUpdate
    \/ PostCreate
    \/ CommentCreate
    \/ CommentDelete
    \/ CommentUpdate
    \/ AuthorProfileList
    \/ BlogIndexList
    \/ BlogCategoryList
    \/ PostDetail
    \/ ResponseSent
    \/ Tick

Spec == Init /\ [][Next]_vars

\* ------------------------------------------------------------- properties
\* The public visibility predicate of the data model: publish flag set,
\* publish timestamp not after now, category published.
Visible(p) ==
    /\ posts[p].is_published
    /\ posts[p].pub_date <= now
    /\ category_is_published[posts[p].category]

Listed == {item.pk : item \in resp.object_list}

GuardedViews == {"post_update", "post_delete", "comment_update", "comment_delete"}

MutatingViews == GuardedViews \cup {"post_create", "comment_create"}

\* The request is to a guarded view, its target exists and the requesting
\* user is (or is not) the target's author.
TargetAuthor(r, P, C) ==
    IF r.view \in {"post_update", "post_delete"}
    THEN IF r.post_id \in DOMAIN P THEN P[r.post_id].author ELSE "none"
    ELSE IF r.view \in {"comment_update", "comment_delete"}
    THEN IF r.comment_pk \in DOMAIN C THEN C[r.comment_pk].author ELSE "none"
    ELSE "none"

PublicListing ==
    /\ resp.kind = "list"
    /\ \/ req.view \in {"index", "category"}
       \/ req.view = "profile" /\ req.user # req.name

C2_GuardOnBothPaths ==
    (/\ req.view \in GuardedViews
     /\ is_authenticated(req.user)
     /\ TargetAuthor(req, posts, comments) \in Users
     /\ req.user # TargetAuthor(req, posts, comments))
        => resp.kind \in {"redirect_detail", "redirect_index"}

\* C3 (as claimed): every mutating route answers an anonymous request with a
\* redirect to the login page, on GET and on POST; the login check comes
\* before the ownership guard, so also when the route names an existing post
\* or comment.  (Requests that name a missing post or comment are left out:
\* what they get is not what the claim is about.)
C3_LoginFirst ==
    (/\ req.view \in MutatingViews
     /\ req.user = Anonymous
     /\ req.view \in GuardedViews
            => TargetAuthor(req, posts, comments) \in Users)
        => resp.kind = "login"

\* C4: the detail route answers not-found for a post id that does not exist,
\* answers the post's author with the post whatever its flags, and answers
\* anyone else with the post only if the post is publicly visible and with
\* not-found otherwise.
C4_DetailAccess ==
    req.view = "post_detail" =>
        IF req.post_id \notin DOMAIN posts THEN resp.kind = "not_found"
        ELSE IF req.user = posts[req.post_id].author
             THEN resp.kind = "page" /\ Listed = {req.post_id}
        ELSE /\ resp.kind \in {"page", "not_found"}
             /\ resp.kind = "page" => (Visible(req.post_id) /\ Listed = {req.post_id})
             /\ ~Visible(req.post_id) => resp.kind = "not_found"

\* C4 witness: the author has opened their own post that is unpublished, dated
\* in the future and in an unpublished category.
C4_Witness ==
    /\ req.view = "post_detail"
    /\ req.post_id \in DOMAIN posts
    /\ req.user = posts[req.post_id].author
    /\ ~posts[req.post_id].is_published
    /\ posts[req.post_id].pub_date > now
    /\ ~category_is_published[posts[req.post_id].category]
    /\ resp.kind = "page"

\* C5: no post listed by the index, by a category listing or by a profile
\* listing requested by someone other than the profile's owner has its
\* publish flag false or a publish timestamp later than now.
C5_PublicListingsPublished ==
    PublicListing =>
        \A p \in Listed :
            /\ p \in DOMAIN posts
            /\ posts[p].is_published
            /\ posts[p].pub_date <= now

\* C5 witness: a public listing shows a post while the store also holds an
\* unpublished post and a post dated in the future.
C5_Witness ==
    /\ PublicListing
    /\ Listed # {}
    /\ \E p \in DOMAIN posts : ~posts[p].is_published
    /\ \E p \in DOMAIN posts : posts[p].pub_date > now

\* C6: a user's own profile listing holds exactly the posts that user
\* authored, the unpublished and the future-dated ones included.
C6_OwnProfileComplete ==
    (req.view = "profile" /\ req.user \in Users /\ req.user = req.name) =>
        /\ resp.kind = "list"
        /\ Listed = {p \in DOMAIN posts : posts[p].author = req.user}

\* C6 witness: the owner's listing shows an own post that is unpublished or
\* dated in the future, and another user's post is stored and not shown.
C6_Witness ==
    /\ req.view = "profile"
    /\ req.user = req.name
    /\ \E p \in Listed : ~posts[p].is_published \/ posts[p].pub_date > now
    /\ \E p \in DOMAIN posts : posts[p].author # req.user /\ p \notin Listed

\* C7 (as claimed): a post in an unpublished category is in no public listing,
\* and the category route answers not-found for an unpublished category.
C7_UnpublishedCategoryHidden ==
    /\ PublicListing =>
           \A p \in Listed : category_is_published[posts[p].category]
    /\ (req.view = "category" /\ ~category_is_published[req.name])
           => resp.kind = "not_found"

\* C8: every stored post and comment has as author the user who issued its
\* create request; a post just created has the requesting user as author, and
\* a comment just created has the requesting user as author and the existing
\* post of the URL as post.
C8_AuthorIsRequester ==
    /\ \A p \in DOMAIN posts : posts[p].author = post_issuer[p]
    /\ \A c \in DOMAIN comments : comments[c].author = comment_issuer[c]
    /\ (req.view = "post_create" /\ resp.kind = "redirect_profile")
          => /\ next_post_pk - 1 \in DOMAIN posts
             /\ posts[next_post_pk - 1].author = req.user
    /\ (req.view = "comment_create" /\ resp.kind = "redirect_detail")
          => /\ next_comment_pk - 1 \in DOMAIN comments
             /\ comments[next_comment_pk - 1].author = req.user
             /\ comments[next_comment_pk - 1].post = req.post_id
             /\ req.post_id \in DOMAIN posts

\* C8 witness: a user has just commented on another user's post.
C8_Witness ==
    /\ req.view = "comment_create"
    /\ resp.kind = "redirect_detail"
    /\ next_comment_pk - 1 \in DOMAIN comments
    /\ comments[next_comment_pk - 1].author = req.user
    /\ posts[req.post_id].author # req.user

\* C9 (as claimed): every post of every listing, the owner's own profile
\* listing included, carries a comment count equal to the number of comments
\* stored for it.
C9_CommentCountAnnotated ==
    resp.kind = "list" =>
        \A item \in resp.object_list :
            /\ item.annotated
            /\ item.comment_count =
                   Cardinality({c \in DOMAIN comments : comments[c].post = item.pk})

\* C10 (as claimed): a post the index lists at now is served by the detail
\* route at the same now to any user, author or not.
C10_ListedIsOpenable ==
    (/\ req.view = "post_detail"
     /\ req.post_id \in {item.pk : item \in BlogIndexListView_get_queryset})
        => resp.kind = "page"

TypeOK ==
    /\ DOMAIN posts \subseteq PostIds
    /\ DOMAIN comments \subseteq CommentIds
    /\ now \in Dates

====
